---- MODULE Spec2Model ----
(***************************************************************************)
(* A model of piku.py: the deployment pipeline (do_deploy, deploy_python,  *)
(* create_workers, single_worker) and the lifecycle commands (enable,      *)
(* disable, restart, destroy) acting on the uwsgi-available and            *)
(* uwsgi-enabled directories.                                              *)
(*                                                                         *)
(* Every file-system call of a command is one atomic step; a command is a  *)
(* process-per-invocation run with a program counter.  Directory listings  *)
(* (glob) and dict iteration (iteritems) have no defined order, so loops   *)
(* over them take their elements in any order.                             *)
(*                                                                         *)
(* Reading of the source: create_workers calls `create_worker`, and        *)
(* deploy_python and create_workers use `env_path`; neither name is bound  *)
(* in piku.py.  The model reads them as single_worker (the only function   *)
(* with that signature) and as join(ENV_ROOT, app) (single_worker's own    *)
(* env_path).  The text of a unit is modelled by the values it is built    *)
(* from (app, kind, ordinal, command, port), not by its formatted lines.   *)
(***************************************************************************)
EXTENDS Integers, Sequences, FiniteSets, TLC

\* ----------------------------------------------------------------- bounds
\* invocations started in one behaviour
MaxInvocations == 2
\* ephemeral ports get_free_port may return
MaxPort == 1
\* lines of a Procfile
MaxLines == 3
\* lines of an environment file
MaxEnvLines == 2
\* ref-update lines the post-receive hook reads in one invocation
MaxRefs == 2

\* ------------------------------------------------------------ vocabulary
\* Sanitized application names, as sequences of name fragments: "foo" is a
\* prefix of "foobar".
Apps == { <<"foo">>, <<"foo", "bar">> }

\* the process of the command line, and the two of concurrent command lines
OneProcess == {1}
TwoProcesses == {1, 2}
Ports == 1..MaxPort
Commands == {"c1", "c2"}
\* left-hand sides a Procfile line can carry ("cron" stands for any other)
LineKinds == {"web", "worker", "wsgi", "cron"}
\* the kinds parse_procfile keeps                               piku.py:60
Kinds == {"web", "worker", "wsgi"}
Ordinals == 1..Cardinality(Kinds)

\* piku.py:14-17  the per-application directory roots
APP_ROOT == "apps"
GIT_ROOT == "repos"
ENV_ROOT == "envs"
LOG_ROOT == "logs"

VARIABLES
    dirs,       \* set of <<root, app>>: the directories that exist under a root
    available,  \* files of UWSGI_AVAILABLE: file name -> content
    enabled,    \* files of UWSGI_ENABLED:   file name -> content
    inv,        \* per process: the invocation it runs (locals and position)
    pre,        \* per process: the file system when its invocation started
    started,    \* number of invocations started so far
    vassals     \* the enabled files uWSGI saw when it last looked

vars == <<dirs, available, enabled, inv, pre, started, vassals>>

\* the processes that run invocations
Procs == DOMAIN inv

\* ------------------------------------------------------------ file names
\* '%d' % ordinal
FormatOrdinal(n) == <<"1", "2", "3", "4">>[n]

\* '%s_%s_%d.ini' % (app, kind, ordinal)            piku.py:152-153
UnitName(app, kind, ordinal) == app \o <<"_", kind, "_", FormatOrdinal(ordinal), ".ini">>

IsPrefix(s, t) == Len(s) <= Len(t) /\ SubSeq(t, 1, Len(s)) = s

\* glob(join(dir, '%s*.ini' % app)): names starting with app, ending in .ini
Glob(dir, app) ==
    { f \in DOMAIN dir : IsPrefix(app, f) /\ Len(f) > Len(app) /\ f[Len(f)] = ".ini" }

\* os.remove / os.unlink of an existing file
RemoveFile(dir, f) == [g \in DOMAIN dir \ {f} |-> dir[g]]

\* open(f, 'w') + write, shutil.copy, shutil.copyfile: create or overwrite
WriteFile(dir, f, c) == [g \in DOMAIN dir \cup {f} |-> IF g = f THEN c ELSE dir[g]]

exists(root, app) == <<root, app>> \in dirs

\* The content single_worker writes: the settings list of piku.py:155-177
\* (fixed settings omitted; module/http for wsgi, attach-daemon otherwise
\* are determined by kind and command).
UnitContent(app, kind, command, port, ordinal) ==
    [app |-> app, kind |-> kind, ordinal |-> ordinal, command |-> command, port |-> port]

\* ----------------------------------------------------------- the manifest
\* A Procfile line: either it has a ':' (then kind and command are the two
\* stripped halves) or it has none (blank or malformed).
Lines == [sep : {TRUE}, kind : LineKinds, command : Commands]
            \cup { [sep |-> FALSE, kind |-> "cron", command |-> "c1"] }

RECURSIVE BoundedSeqs(_, _)
BoundedSeqs(S, n) ==
    IF n = 0 THEN { <<>> }
    ELSE LET shorter == BoundedSeqs(S, n - 1)
         IN  shorter \cup { Append(s, x) : s \in { t \in shorter : Len(t) = n - 1 }, x \in S }

NoWorkers == [k \in {} |-> "c1"]

\* the loop of parse_procfile, piku.py:57-63
RECURSIVE ScanProcfile(_, _)
ScanProcfile(lines, workers) ==
    IF lines = <<>> THEN workers
    ELSE LET line == Head(lines)
             next == IF line.sep /\ line.kind \in Kinds
                     THEN [k \in DOMAIN workers \cup {line.kind} |->
                              IF k = line.kind THEN line.command ELSE workers[k]]
                     ELSE workers
         IN  ScanProcfile(Tail(lines), next)

\* parse_procfile with the precedence turned round: web trumps wsgi
parse_procfile_web_trumps(present, lines) ==
    IF ~present THEN NoWorkers
    ELSE LET workers == ScanProcfile(lines, NoWorkers)
         IN  IF DOMAIN workers = {} THEN NoWorkers
             ELSE IF "wsgi" \in DOMAIN workers /\ "web" \in DOMAIN workers
                  THEN [k \in DOMAIN workers \ {"wsgi"} |-> workers[k]]
                  ELSE workers

\* parse_procfile, piku.py:51-70.  None is modelled as the empty map: the
\* only caller tests the result for truth.
parse_procfile(present, lines) ==
    IF ~present THEN NoWorkers
    ELSE LET workers == ScanProcfile(lines, NoWorkers)
         IN  IF DOMAIN workers = {} THEN NoWorkers
             ELSE IF "wsgi" \in DOMAIN workers /\ "web" \in DOMAIN workers
                  THEN [k \in DOMAIN workers \ {"web"} |-> workers[k]]
                  ELSE workers

\* every result parse_procfile can give for a Procfile within the bounds
WorkerMaps ==
    { parse_procfile(TRUE, ls) : ls \in BoundedSeqs(Lines, MaxLines) } \cup { parse_procfile(FALSE, <<>>) }

\* ------------------------------------------------------ the environment
\* A line of an environment file: with a '=' it gives a key and a value
\* (the stripped halves), without one it is malformed.
EnvKeys == {"PORT", "FOO"}
EnvValues == {"x", "y"}
EnvLines == [sep : {TRUE}, key : EnvKeys, value : EnvValues]
               \cup { [sep |-> FALSE, key |-> "FOO", value |-> "x"] }

\* an environment file: whether it exists, and its lines
NoFile == [present |-> FALSE, lines |-> <<>>]
EnvFiles == { NoFile } \cup { [present |-> TRUE, lines |-> ls] : ls \in BoundedSeqs(EnvLines, MaxEnvLines) }

\* The three files of one deploy: ENV in the application's checkout
\* (APP_ROOT/<app>/ENV), the file APP_ROOT/ENV, and the file ENV_ROOT/<app>.
NoFiles == [shipped |-> NoFile, root |-> NoFile, settings |-> NoFile]

\* the loop of parse_settings, piku.py:79-84
RECURSIVE ScanSettings(_, _)
ScanSettings(lines, env) ==
    IF lines = <<>> THEN env
    ELSE LET line == Head(lines)
             next == IF line.sep
                     THEN [k \in DOMAIN env \cup {line.key} |->
                              IF k = line.key THEN line.value ELSE env[k]]
                     ELSE env
         IN  ScanSettings(Tail(lines), next)

\* parse_settings, piku.py:73-85 (called for existing files only)
parse_settings(file) == ScanSettings(file.lines, NoWorkers)

\* dict.update
Update(env, other) ==
    [k \in DOMAIN env \cup DOMAIN other |-> IF k \in DOMAIN other THEN other[k] ELSE env[k]]

\* str(get_free_port())
FormatPort(n) == <<"1", "2", "3", "4">>[n]

\* the env of create_workers before the files are read, piku.py:132-136
DefaultEnv(app, port) ==
    [k \in {"PATH", "VIRTUAL_ENV", "PORT"} |->
        IF k = "PORT" THEN FormatPort(port) ELSE IF k = "PATH" THEN "os.environ" ELSE "env_path"]

\* the env create_workers hands to single_worker, piku.py:130-142:
\* env_file is join(APP_ROOT, 'ENV'), settings is join(ENV_ROOT, app)
ResolveEnv(app, port, files) ==
    LET env0 == DefaultEnv(app, port)
        env1 == IF files.root.present THEN Update(env0, parse_settings(files.root)) ELSE env0
    IN  IF files.settings.present THEN Update(env1, parse_settings(files.settings)) ELSE env1

\* all orders in which the keys of a dict can be iterated
Orders(S) ==
    { s \in BoundedSeqs(S, Cardinality(S)) :
        Len(s) = Cardinality(S) /\ \A i, j \in 1..Len(s) : i # j => s[i] # s[j] }

\* ------------------------------------------------------- invocation state
Idle ==
    [op |-> "none", app |-> <<>>, pc |-> "idle", out |-> "none",
     en |-> {}, av |-> {}, roots |-> <<>>, pats |-> <<>>,
     workers |-> NoWorkers, kind |-> "none", ordinal |-> 0, port |-> 0,
     manifest |-> NoWorkers, requirements |-> FALSE, lines |-> <<>>,
     files |-> NoFiles, env |-> NoWorkers,
     refs |-> <<>>, line |-> 0, pulled |-> FALSE,
     id |-> 0, end |-> 0]

Snapshot == [dirs |-> dirs, available |-> available, enabled |-> enabled]

Finished(p) == inv[p].pc \in {"idle", "done"}

\* The command line starts one invocation; a process runs its invocations
\* one at a time.
CanStart(p) ==
    /\ started < MaxInvocations
    /\ Finished(p)

Begin(op, app) == [Idle EXCEPT !.op = op, !.app = app, !.id = started + 1]

\* The invocation returns (or is ended by an uncaught exception, out =
\* "crash").  manifest, requirements and pulled record what a deploy was
\* given and whether it pulled.  In git_hook a return of do_deploy or the
\* end of a round goes on to the next line of stdin, if any.
End(r, out) ==
    LET done == [Idle EXCEPT !.op = r.op, !.app = r.app, !.pc = "done", !.out = out,
                             !.manifest = r.manifest, !.requirements = r.requirements,
                             !.refs = r.refs, !.line = r.line, !.pulled = r.pulled,
                             !.id = r.id, !.end = started]
    IN  IF out # "crash" /\ r.line < Len(r.refs)
        THEN [done EXCEPT !.pc = "git_hook", !.out = "none", !.line = r.line + 1,
                          !.manifest = NoWorkers, !.requirements = FALSE, !.end = 0]
        ELSE done

Started(p) ==
    /\ pre' = [pre EXCEPT ![p] = Snapshot]
    /\ started' = started + 1
    /\ UNCHANGED vassals

\* ---------------------------------------------------------------- disable
\* piku.py:237-244, up to the first os.remove
disable_app(p, app) ==
    /\ CanStart(p)
    /\ Started(p)
    /\ LET config == Glob(enabled, app)
       IN  inv' = [inv EXCEPT ![p] =
                IF config # {}
                THEN [Begin("disable", app) EXCEPT !.pc = "disable_remove", !.en = config]
                ELSE End(Begin("disable", app), "Error: not deployed")]
    /\ UNCHANGED <<dirs, available, enabled>>

\* disable_app_remove with the loop left after its first round
disable_app_remove_first_only(p) ==
    /\ inv[p].pc = "disable_remove"
    /\ \E c \in inv[p].en :
         /\ enabled' = RemoveFile(enabled, c)
         /\ inv' = [inv EXCEPT ![p] = End(inv[p], "Disabling")]
    /\ UNCHANGED <<dirs, available, pre, started, vassals>>

\* piku.py:241-242, one os.remove(c)
disable_app_remove(p) ==
    /\ inv[p].pc = "disable_remove"
    /\ \E c \in inv[p].en :
         IF c \in DOMAIN enabled
         THEN /\ enabled' = RemoveFile(enabled, c)
              /\ inv' = [inv EXCEPT ![p] =
                    IF inv[p].en = {c} THEN End(inv[p], "Disabling")
                    ELSE [inv[p] EXCEPT !.en = inv[p].en \ {c}]]
         ELSE /\ enabled' = enabled
              /\ inv' = [inv EXCEPT ![p] = End(inv[p], "crash")]
    /\ UNCHANGED <<dirs, available, pre, started, vassals>>

\* ----------------------------------------------------------------- enable
\* piku.py:251-252
enable_app(p, app) ==
    /\ CanStart(p)
    /\ Started(p)
    /\ inv' = [inv EXCEPT ![p] =
            [Begin("enable", app) EXCEPT !.pc = "enable_glob", !.en = Glob(enabled, app)]]
    /\ UNCHANGED <<dirs, available, enabled>>

\* piku.py:253
enable_app_glob(p) ==
    /\ inv[p].pc = "enable_glob"
    /\ inv' = [inv EXCEPT ![p].pc = "enable_check", ![p].av = Glob(available, inv[p].app)]
    /\ UNCHANGED <<dirs, available, enabled, pre, started, vassals>>

\* piku.py:254-265, the branches
enable_app_check(p) ==
    /\ inv[p].pc = "enable_check"
    /\ inv' = [inv EXCEPT ![p] =
            IF exists(APP_ROOT, inv[p].app)
            THEN IF inv[p].en # {}
                 THEN IF inv[p].av # {}
                      THEN [inv[p] EXCEPT !.pc = "enable_copy"]
                      ELSE End(inv[p], "Error: not configured")
                 ELSE End(inv[p], "Warning: already enabled")
            ELSE End(inv[p], "Error: does not exist")]
    /\ UNCHANGED <<dirs, available, enabled, pre, started, vassals>>

\* shutil.copy(a, join(UWSGI_ENABLED, app)): the destination is not a
\* directory, so it is the file UWSGI_ENABLED/<app>   piku.py:259, 303
CopyToEnabled(dir, app, a) == WriteFile(dir, app, available[a])

\* piku.py:258-259, one shutil.copy
enable_app_copy(p) ==
    /\ inv[p].pc = "enable_copy"
    /\ \E a \in inv[p].av :
         IF a \in DOMAIN available
         THEN /\ enabled' = CopyToEnabled(enabled, inv[p].app, a)
              /\ inv' = [inv EXCEPT ![p] =
                    IF inv[p].av = {a} THEN End(inv[p], "Enabling")
                    ELSE [inv[p] EXCEPT !.av = inv[p].av \ {a}]]
         ELSE /\ enabled' = enabled
              /\ inv' = [inv EXCEPT ![p] = End(inv[p], "crash")]
    /\ UNCHANGED <<dirs, available, pre, started, vassals>>

\* ---------------------------------------------------------------- restart
\* piku.py:292-293
restart_app(p, app) ==
    /\ CanStart(p)
    /\ Started(p)
    /\ inv' = [inv EXCEPT ![p] =
            [Begin("restart", app) EXCEPT !.pc = "restart_glob", !.en = Glob(enabled, app)]]
    /\ UNCHANGED <<dirs, available, enabled>>

\* piku.py:294-296, 304-305
restart_app_glob(p) ==
    /\ inv[p].pc = "restart_glob"
    /\ inv' = [inv EXCEPT ![p] =
            IF inv[p].en # {}
            THEN [inv[p] EXCEPT !.pc = "restart_unlink", !.av = Glob(available, inv[p].app)]
            ELSE End(inv[p], "Error: not enabled")]
    /\ UNCHANGED <<dirs, available, enabled, pre, started, vassals>>

\* piku.py:298-299, one os.unlink(e)
restart_app_unlink(p) ==
    /\ inv[p].pc = "restart_unlink"
    /\ \E e \in inv[p].en :
         IF e \in DOMAIN enabled
         THEN /\ enabled' = RemoveFile(enabled, e)
              /\ inv' = [inv EXCEPT ![p] =
                    IF inv[p].en = {e} THEN [inv[p] EXCEPT !.pc = "restart_sleep", !.en = {}]
                    ELSE [inv[p] EXCEPT !.en = inv[p].en \ {e}]]
         ELSE /\ enabled' = enabled
              /\ inv' = [inv EXCEPT ![p] = End(inv[p], "crash")]
    /\ UNCHANGED <<dirs, available, pre, started, vassals>>

\* piku.py:300-301, sleep(5) and the test of len(available)
restart_app_sleep(p) ==
    /\ inv[p].pc = "restart_sleep"
    /\ inv' = [inv EXCEPT ![p] =
            IF inv[p].av # {} THEN [inv[p] EXCEPT !.pc = "restart_copy"]
            ELSE End(inv[p], "Restarting")]
    /\ UNCHANGED <<dirs, available, enabled, pre, started, vassals>>

\* piku.py:302-303, one shutil.copy
restart_app_copy(p) ==
    /\ inv[p].pc = "restart_copy"
    /\ \E a \in inv[p].av :
         IF a \in DOMAIN available
         THEN /\ enabled' = CopyToEnabled(enabled, inv[p].app, a)
              /\ inv' = [inv EXCEPT ![p] =
                    IF inv[p].av = {a} THEN End(inv[p], "Restarting")
                    ELSE [inv[p] EXCEPT !.av = inv[p].av \ {a}]]
         ELSE /\ enabled' = enabled
              /\ inv' = [inv EXCEPT ![p] = End(inv[p], "crash")]
    /\ UNCHANGED <<dirs, available, pre, started, vassals>>

\* ---------------------------------------------------------------- destroy
\* piku.py:220-221
destroy_app(p, app) ==
    /\ CanStart(p)
    /\ Started(p)
    /\ inv' = [inv EXCEPT ![p] =
            [Begin("destroy", app) EXCEPT !.pc = "destroy_rmtree",
                                          !.roots = <<APP_ROOT, GIT_ROOT, ENV_ROOT, LOG_ROOT>>]]
    /\ UNCHANGED <<dirs, available, enabled>>

\* piku.py:221-224, one round of the loop: exists(p) and shutil.rmtree(p)
destroy_app_rmtree(p) ==
    /\ inv[p].pc = "destroy_rmtree"
    /\ dirs' = dirs \ { <<Head(inv[p].roots), inv[p].app>> }
    /\ inv' = [inv EXCEPT ![p] =
            IF Len(inv[p].roots) = 1
            THEN [inv[p] EXCEPT !.pc = "destroy_glob", !.roots = <<>>,
                                !.pats = <<"available", "enabled">>]
            ELSE [inv[p] EXCEPT !.roots = Tail(inv[p].roots)]]
    /\ UNCHANGED <<available, enabled, pre, started, vassals>>

\* piku.py:225-227, g = glob(p) for the next of the two patterns
destroy_app_glob(p) ==
    /\ inv[p].pc = "destroy_glob"
    /\ LET dir == IF Head(inv[p].pats) = "available" THEN available ELSE enabled
           g   == Glob(dir, inv[p].app)
       IN  inv' = [inv EXCEPT ![p] =
                IF g # {} THEN [inv[p] EXCEPT !.pc = "destroy_remove", !.en = g]
                ELSE IF Len(inv[p].pats) = 1 THEN End(inv[p], "Removing")
                ELSE [inv[p] EXCEPT !.pats = Tail(inv[p].pats)]]
    /\ UNCHANGED <<dirs, available, enabled, pre, started, vassals>>

\* piku.py:228-230, one os.remove(f)
destroy_app_remove(p) ==
    /\ inv[p].pc = "destroy_remove"
    /\ \E f \in inv[p].en :
         LET inAvailable == Head(inv[p].pats) = "available"
             dir  == IF inAvailable THEN available ELSE enabled
             next == IF inv[p].en # {f} THEN [inv[p] EXCEPT !.en = inv[p].en \ {f}]
                     ELSE IF Len(inv[p].pats) = 1 THEN End(inv[p], "Removing")
                     ELSE [inv[p] EXCEPT !.pc = "destroy_glob", !.en = {},
                                         !.pats = Tail(inv[p].pats)]
         IN  IF f \in DOMAIN dir
             THEN /\ available' = IF inAvailable THEN RemoveFile(available, f) ELSE available
                  /\ enabled' = IF inAvailable THEN enabled ELSE RemoveFile(enabled, f)
                  /\ inv' = [inv EXCEPT ![p] = next]
             ELSE /\ UNCHANGED <<available, enabled>>
                  /\ inv' = [inv EXCEPT ![p] = End(inv[p], "crash")]
    /\ UNCHANGED <<dirs, pre, started, vassals>>

\* ----------------------------------------------------------------- deploy
\* do_deploy without the test of the parsed workers (piku.py:98)
do_deploy_unchecked(p, app, workers, requirements) ==
    /\ CanStart(p)
    /\ Started(p)
    /\ LET r == [Begin("deploy", app) EXCEPT !.manifest = workers, !.requirements = requirements]
       IN  inv' = [inv EXCEPT ![p] =
                IF exists(APP_ROOT, app)
                THEN IF requirements
                     THEN [r EXCEPT !.pc = "deploy_python", !.workers = workers, !.pulled = TRUE]
                     ELSE End([r EXCEPT !.pulled = TRUE], "Could not detect runtime")
                ELSE End(r, "Error: app not found")]
    /\ UNCHANGED <<dirs, available, enabled>>

\* do_deploy, piku.py:88-108, in the invocation r.  The pull brings the
\* checkout to the pushed revision: whether it has a Procfile, what
\* parse_procfile makes of it (workers) and whether it has a requirements.txt
\* are inputs.
DoDeploy(r0, workers, requirements) ==
    LET r == [r0 EXCEPT !.manifest = workers, !.requirements = requirements]
        q == [r EXCEPT !.pulled = TRUE]
    IN  IF exists(APP_ROOT, r.app)
        THEN IF DOMAIN workers # {}
             THEN IF requirements
                  THEN [q EXCEPT !.pc = "deploy_python", !.workers = workers]
                  ELSE End(q, "Could not detect runtime")
             ELSE End(q, "Error: Procfile not found")
        ELSE End(r, "Error: app not found")

\* the deploy command: deploy_app, piku.py:208-213, and do_deploy
do_deploy(p, app, workers, requirements) ==
    /\ CanStart(p)
    /\ Started(p)
    /\ inv' = [inv EXCEPT ![p] = DoDeploy(Begin("deploy", app), workers, requirements)]
    /\ UNCHANGED <<dirs, available, enabled>>

\* deploy_python, piku.py:111-124, up to the call of create_workers
deploy_python(p) ==
    /\ inv[p].pc = "deploy_python"
    /\ dirs' = dirs \cup { <<ENV_ROOT, inv[p].app>> }
    /\ inv' = [inv EXCEPT ![p].pc = "create_workers"]
    /\ UNCHANGED <<available, enabled, pre, started, vassals>>

\* create_workers, piku.py:127-143: ordinal = 1 and the port of get_free_port
create_workers(p, port) ==
    /\ inv[p].pc = "create_workers"
    /\ inv' = [inv EXCEPT ![p].pc = "single_worker_write", ![p].ordinal = 1, ![p].port = port]
    /\ UNCHANGED <<dirs, available, enabled, pre, started, vassals>>

\* ordinal += 1 after each worker                              piku.py:146
NextOrdinal(ordinal) == ordinal + 1

\* single_worker_write with the write of the available unit left out
single_worker_write_skipped(p) ==
    /\ inv[p].pc = "single_worker_write"
    /\ \E k \in DOMAIN inv[p].workers :
         inv' = [inv EXCEPT ![p].pc = "single_worker_unlink", ![p].kind = k]
    /\ UNCHANGED <<dirs, available, enabled, pre, started, vassals>>

\* the next (k, v) of workers.iteritems() and single_worker up to the write
\* of the available unit, piku.py:144-145, 149-181
single_worker_write(p) ==
    /\ inv[p].pc = "single_worker_write"
    /\ \E k \in DOMAIN inv[p].workers :
         /\ available' = WriteFile(available, UnitName(inv[p].app, k, inv[p].ordinal),
                            UnitContent(inv[p].app, k, inv[p].workers[k], inv[p].port,
                                        inv[p].ordinal))
         /\ inv' = [inv EXCEPT ![p].pc = "single_worker_unlink", ![p].kind = k]
    /\ UNCHANGED <<dirs, enabled, pre, started, vassals>>

\* single_worker_unlink with the removal skipped, not raised, when the
\* enabled file does not exist
single_worker_unlink_if_exists(p) ==
    /\ inv[p].pc = "single_worker_unlink"
    /\ LET name == UnitName(inv[p].app, inv[p].kind, inv[p].ordinal)
       IN  /\ enabled' = IF name \in DOMAIN enabled THEN RemoveFile(enabled, name) ELSE enabled
           /\ inv' = [inv EXCEPT ![p].pc = "single_worker_copy"]
    /\ UNCHANGED <<dirs, available, pre, started, vassals>>

\* os.unlink(enabled), piku.py:183: raises when the file does not exist
single_worker_unlink(p) ==
    /\ inv[p].pc = "single_worker_unlink"
    /\ LET name == UnitName(inv[p].app, inv[p].kind, inv[p].ordinal)
       IN  IF name \in DOMAIN enabled
           THEN /\ enabled' = RemoveFile(enabled, name)
                /\ inv' = [inv EXCEPT ![p].pc = "single_worker_copy"]
           ELSE /\ enabled' = enabled
                /\ inv' = [inv EXCEPT ![p] = End(inv[p], "crash")]
    /\ UNCHANGED <<dirs, available, pre, started, vassals>>

\* sleep(5) and shutil.copyfile(available, enabled), piku.py:184-185, then
\* the next round of the loop of create_workers
single_worker_copy(p) ==
    /\ inv[p].pc = "single_worker_copy"
    /\ LET name == UnitName(inv[p].app, inv[p].kind, inv[p].ordinal)
           rest == [k \in DOMAIN inv[p].workers \ {inv[p].kind} |-> inv[p].workers[k]]
       IN  IF name \in DOMAIN available
           THEN /\ enabled' = WriteFile(enabled, name, available[name])
                /\ inv' = [inv EXCEPT ![p] =
                      IF DOMAIN rest = {} THEN End(inv[p], "Enabling")
                      ELSE [inv[p] EXCEPT !.pc = "single_worker_write", !.workers = rest,
                                          !.kind = "none",
                                          !.ordinal = NextOrdinal(inv[p].ordinal)]]
           ELSE /\ enabled' = enabled
                /\ inv' = [inv EXCEPT ![p] = End(inv[p], "crash")]
    /\ UNCHANGED <<dirs, available, pre, started, vassals>>

\* --------------------------------------------------------------- git-hook
\* the branch whose pushes are deployed                        piku.py:320
PrimaryRef == "refs/heads/master"

\* What a line of the hook's stdin can be: a ref update of the primary
\* branch or of another ref, or a line that does not split in three.
HookLines == {PrimaryRef, "refs/heads/dev", "malformed"}

\* git_hook with the test of the ref name left out: every ref is deployed
git_hook_line_any_ref(p) ==
    /\ inv[p].pc = "git_hook"
    /\ IF inv[p].refs[inv[p].line] # "malformed"
       THEN /\ dirs' = dirs \cup { <<APP_ROOT, inv[p].app>> }
            /\ inv' = [inv EXCEPT ![p].pc = "git_hook_deploy"]
       ELSE /\ dirs' = dirs
            /\ inv' = [inv EXCEPT ![p] = End(inv[p], "crash")]
    /\ UNCHANGED <<available, enabled, pre, started, vassals>>

\* git_hook, piku.py:310-317: the hook starts to read its stdin
git_hook(p, app, refs) ==
    /\ CanStart(p)
    /\ Started(p)
    /\ inv' = [inv EXCEPT ![p] =
            IF refs = <<>> THEN End(Begin("git-hook", app), "none")
            ELSE [Begin("git-hook", app) EXCEPT !.pc = "git_hook", !.refs = refs, !.line = 1]]
    /\ UNCHANGED <<dirs, available, enabled>>

\* one line of stdin, piku.py:317-329: a malformed line raises; the primary
\* branch creates the checkout if missing and goes on to do_deploy; any other
\* ref is echoed
git_hook_line(p) ==
    /\ inv[p].pc = "git_hook"
    /\ LET refname == inv[p].refs[inv[p].line]
       IN  IF refname = "malformed"
           THEN /\ dirs' = dirs
                /\ inv' = [inv EXCEPT ![p] = End(inv[p], "crash")]
           ELSE IF refname = PrimaryRef
           THEN /\ dirs' = dirs \cup { <<APP_ROOT, inv[p].app>> }
                /\ inv' = [inv EXCEPT ![p].pc = "git_hook_deploy"]
           ELSE /\ dirs' = dirs
                /\ inv' = [inv EXCEPT ![p] = End(inv[p], "receive-branch")]
    /\ UNCHANGED <<available, enabled, pre, started, vassals>>

\* do_deploy(app), piku.py:326
git_hook_deploy(p, workers, requirements) ==
    /\ inv[p].pc = "git_hook_deploy"
    /\ inv' = [inv EXCEPT ![p] = DoDeploy(inv[p], workers, requirements)]
    /\ UNCHANGED <<dirs, available, enabled, pre, started, vassals>>

\* ------------------------------------------------------------------ uWSGI
\* The emperor looks at UWSGI_ENABLED from time to time: it runs a vassal for
\* every file it sees and kills the vassal of a file that is gone
\* (piku.py:297).
uwsgi_emperor_poll ==
    /\ vassals # DOMAIN enabled
    /\ vassals' = DOMAIN enabled
    /\ UNCHANGED <<dirs, available, enabled, inv, pre, started>>

\* ------------------------------------------------------------ initial state
\* The directories outlive the invocations: an invocation starts from what
\* earlier pushes and commands left.  The initial states are, per
\* application: absent; pushed but never deployed; or deployed from some
\* manifest, with the units of that deploy available and either all or none
\* of them enabled.
UnitsOf(app, workers, order, port) ==
    [f \in { UnitName(app, order[i], i) : i \in 1..Len(order) } |->
        LET i == CHOOSE j \in 1..Len(order) : UnitName(app, order[j], j) = f
        IN  UnitContent(app, order[i], workers[order[i]], port, i)]

InitWorkerMaps == { w \in WorkerMaps : w # NoWorkers /\ \A k \in DOMAIN w : w[k] = "c1" }

AppStates(app, maps) ==
    { [dirs |-> {}, available |-> <<>>, enabled |-> <<>>],
      [dirs |-> { <<APP_ROOT, app>>, <<GIT_ROOT, app>> }, available |-> <<>>, enabled |-> <<>>] }
    \cup
    UNION { { [dirs |-> { <<r, app>> : r \in {APP_ROOT, GIT_ROOT, ENV_ROOT, LOG_ROOT} },
               available |-> UnitsOf(app, w, o, 1),
               enabled |-> IF on THEN UnitsOf(app, w, o, 1) ELSE <<>>] :
                o \in Orders(DOMAIN w), on \in BOOLEAN } :
            w \in maps }

Init ==
    /\ \E a \in AppStates(<<"foo">>, InitWorkerMaps),
          b \in AppStates(<<"foo", "bar">>, { w \in InitWorkerMaps : DOMAIN w = {"web"} }) :
         /\ dirs = a.dirs \cup b.dirs
         /\ available = a.available @@ b.available
         /\ enabled = a.enabled @@ b.enabled
         /\ vassals = DOMAIN (a.enabled @@ b.enabled)
    /\ inv = [p \in OneProcess |-> Idle]
    /\ pre = [p \in OneProcess |-> [dirs |-> {}, available |-> <<>>, enabled |-> <<>>]]
    /\ started = 0

Next ==
    \/ \E p \in Procs, app \in Apps : disable_app(p, app)
    \/ \E p \in Procs : disable_app_remove(p)
    \/ \E p \in Procs, app \in Apps : enable_app(p, app)
    \/ \E p \in Procs : enable_app_glob(p)
    \/ \E p \in Procs : enable_app_check(p)
    \/ \E p \in Procs : enable_app_copy(p)
    \/ \E p \in Procs, app \in Apps : restart_app(p, app)
    \/ \E p \in Procs : restart_app_glob(p)
    \/ \E p \in Procs : restart_app_unlink(p)
    \/ \E p \in Procs : restart_app_sleep(p)
    \/ \E p \in Procs : restart_app_copy(p)
    \/ \E p \in Procs, app \in Apps : destroy_app(p, app)
    \/ \E p \in Procs : destroy_app_rmtree(p)
    \/ \E p \in Procs : destroy_app_glob(p)
    \/ \E p \in Procs : destroy_app_remove(p)
    \/ \E p \in Procs, app \in Apps, w \in WorkerMaps, r \in BOOLEAN : do_deploy(p, app, w, r)
    \/ \E p \in Procs : deploy_python(p)
    \/ \E p \in Procs, port \in Ports : create_workers(p, port)
    \/ \E p \in Procs : single_worker_write(p)
    \/ \E p \in Procs : single_worker_unlink(p)
    \/ \E p \in Procs : single_worker_copy(p)

Spec == Init /\ [][Next]_vars

\* --------------------------------------------------------- pushes only
\* The post-receive hook as the only entry point, on a host where foo is
\* absent, pushed or deployed with a web worker, and foobar is absent.
InitHook ==
    /\ \E a \in AppStates(<<"foo">>, { w \in InitWorkerMaps : DOMAIN w = {"web"} }) :
         /\ dirs = a.dirs
         /\ available = a.available
         /\ enabled = a.enabled
         /\ vassals = DOMAIN a.enabled
    /\ inv = [p \in OneProcess |-> Idle]
    /\ pre = [p \in OneProcess |-> [dirs |-> {}, available |-> <<>>, enabled |-> <<>>]]
    /\ started = 0

NextHook ==
    \/ \E p \in Procs, app \in Apps, refs \in BoundedSeqs(HookLines, MaxRefs) :
          git_hook(p, app, refs)
    \/ \E p \in Procs : git_hook_line(p)
    \/ \E p \in Procs, w \in WorkerMaps, r \in BOOLEAN : git_hook_deploy(p, w, r)
    \/ \E p \in Procs : deploy_python(p)
    \/ \E p \in Procs, port \in Ports : create_workers(p, port)
    \/ \E p \in Procs : single_worker_write(p)
    \/ \E p \in Procs : single_worker_unlink(p)
    \/ \E p \in Procs : single_worker_copy(p)

SpecHook == InitHook /\ [][NextHook]_vars

\* -------------------------------------------------- concurrent invocations
\* Two command lines at a time on a host where foo is absent, pushed or
\* deployed with a web worker, and foobar is absent.
InitConcurrent ==
    /\ \E a \in AppStates(<<"foo">>, { w \in InitWorkerMaps : DOMAIN w = {"web"} }) :
         /\ dirs = a.dirs
         /\ available = a.available
         /\ enabled = a.enabled
         /\ vassals = DOMAIN a.enabled
    /\ inv = [p \in TwoProcesses |-> Idle]
    /\ pre = [p \in TwoProcesses |-> [dirs |-> {}, available |-> <<>>, enabled |-> <<>>]]
    /\ started = 0

SpecConcurrent == InitConcurrent /\ [][Next]_vars

\* ------------------------------------------------------ restart and uWSGI
\* Restarts with uWSGI looking at UWSGI_ENABLED at any moment.
NextRestart ==
    \/ \E p \in Procs, app \in Apps : restart_app(p, app)
    \/ \E p \in Procs : restart_app_glob(p)
    \/ \E p \in Procs : restart_app_unlink(p)
    \/ \E p \in Procs : restart_app_sleep(p)
    \/ \E p \in Procs : restart_app_copy(p)
    \/ uwsgi_emperor_poll

SpecRestart == Init /\ [][NextRestart]_vars

\* ------------------------------------------------- the parser on its own
\* parse_procfile applied to every Procfile within the bounds: the lines are
\* drawn in the initial state, the one step parses them.
InitParse ==
    /\ dirs = {}
    /\ available = <<>>
    /\ enabled = <<>>
    /\ vassals = {}
    /\ started = 0
    /\ \E ls \in BoundedSeqs(Lines, MaxLines) :
          inv = [p \in OneProcess |-> [Begin("parse", <<>>) EXCEPT !.pc = "parse", !.lines = ls]]
    /\ pre = [p \in OneProcess |-> [dirs |-> {}, available |-> <<>>, enabled |-> <<>>]]

\* workers = parse_procfile(procfile)                           piku.py:97
parse_procfile_call(p) ==
    /\ inv[p].pc = "parse"
    /\ inv' = [inv EXCEPT ![p].pc = "done",
                          ![p].manifest = parse_procfile(TRUE, inv[p].lines)]
    /\ UNCHANGED <<dirs, available, enabled, pre, started, vassals>>

NextParse == \E p \in Procs : parse_procfile_call(p)

SpecParse == InitParse /\ [][NextParse]_vars

\* -------------------------------------------- the environment on its own
\* The environment resolution of create_workers applied to every choice of
\* the three files within the bounds.
InitEnv ==
    /\ dirs = {}
    /\ available = <<>>
    /\ enabled = <<>>
    /\ vassals = {}
    /\ started = 0
    /\ \E a \in EnvFiles, b \in EnvFiles, c \in EnvFiles, port \in Ports :
          inv = [p \in OneProcess |->
                   [Begin("deploy", <<"foo">>) EXCEPT
                       !.pc = "resolve_env", !.port = port,
                       !.files = [shipped |-> a, root |-> b, settings |-> c]]]
    /\ pre = [p \in OneProcess |-> [dirs |-> {}, available |-> <<>>, enabled |-> <<>>]]

\* piku.py:130-142
create_workers_env(p) ==
    /\ inv[p].pc = "resolve_env"
    /\ inv' = [inv EXCEPT ![p].pc = "resolved",
                          ![p].env = ResolveEnv(inv[p].app, inv[p].port, inv[p].files)]
    /\ UNCHANGED <<dirs, available, enabled, pre, started, vassals>>

NextEnv == \E p \in Procs : create_workers_env(p)

SpecEnv == InitEnv /\ [][NextEnv]_vars

\* ------------------------------------------------------------ properties
\* the units of an application: the files named <app>_<kind>_<ordinal>.ini
UnitNames(app) == { UnitName(app, k, i) : k \in Kinds, i \in Ordinals }

OwnUnits(dir, app) == DOMAIN dir \cap UnitNames(app)

\* the part of a directory that belongs to an application
Own(dir, app) == [f \in OwnUnits(dir, app) |-> dir[f]]

OwnDirs(ds, app) == { d \in ds : d[2] = app }

\* process p has finished an invocation of op
Done(p, op) == inv[p].pc = "done" /\ inv[p].op = op

\* a unit of the given kind is both available and enabled, with equal content
Matching(app, kind) ==
    \E i \in Ordinals :
        LET f == UnitName(app, kind, i)
        IN  f \in DOMAIN available /\ f \in DOMAIN enabled /\ enabled[f] = available[f]

\* C1: after enable of a configured-disabled application (checkout exists,
\* some unit available, none enabled) every available unit of the application
\* is in the enabled location under its name, with the same content.
C1_EnableCopiesAvailable ==
    \A p \in Procs :
        ( /\ Done(p, "enable")
          /\ <<APP_ROOT, inv[p].app>> \in pre[p].dirs
          /\ OwnUnits(pre[p].available, inv[p].app) # {}
          /\ OwnUnits(pre[p].enabled, inv[p].app) = {} )
        => \A f \in OwnUnits(available, inv[p].app) :
               f \in DOMAIN enabled /\ enabled[f] = available[f]

\* C2: enable of an already-enabled application (checkout exists, its units
\* in both locations) reports the warning and leaves the available set and
\* every file of the enabled location as they were.
C2_EnableEnabledIsNoOp ==
    \A p \in Procs :
        ( /\ Done(p, "enable")
          /\ <<APP_ROOT, inv[p].app>> \in pre[p].dirs
          /\ OwnUnits(pre[p].available, inv[p].app) # {}
          /\ OwnUnits(pre[p].enabled, inv[p].app) = OwnUnits(pre[p].available, inv[p].app) )
        => /\ inv[p].out = "Warning: already enabled"
           /\ available = pre[p].available
           /\ enabled = pre[p].enabled

\* C3: a restart never modifies the available set, and when a restart of an
\* application with enabled units ends, the enabled units of the application
\* are those that were enabled before it.
C3_RestartRestores ==
    \A p \in Procs :
        /\ (inv[p].op = "restart" => available = pre[p].available)
        /\ (Done(p, "restart") /\ OwnUnits(pre[p].enabled, inv[p].app) # {})
           => OwnUnits(enabled, inv[p].app) = OwnUnits(pre[p].enabled, inv[p].app)

\* C4: when a deploy of an existing checkout with a non-empty manifest and
\* a recognised runtime ends, every kind of the manifest has an available
\* unit and an identical enabled unit.
C4_DeployEnablesAll ==
    \A p \in Procs :
        ( /\ Done(p, "deploy")
          /\ <<APP_ROOT, inv[p].app>> \in pre[p].dirs
          /\ DOMAIN inv[p].manifest # {}
          /\ inv[p].requirements )
        => \A k \in DOMAIN inv[p].manifest : Matching(inv[p].app, k)

\* C5: every file of the enabled location has a file of the same name in the
\* available location, in every state.
C5_EnabledSubsetAvailable == DOMAIN enabled \subseteq DOMAIN available

\* C6: the enabled location never holds both a web unit and a wsgi unit of
\* one application.
C6_NeverWebAndWsgi ==
    \A app \in Apps :
        ~ ( /\ \E i \in Ordinals : UnitName(app, "web", i) \in DOMAIN enabled
            /\ \E i \in Ordinals : UnitName(app, "wsgi", i) \in DOMAIN enabled )

\* C6 witness: a deploy whose manifest has wsgi has generated the wsgi unit
\* of an application whose web unit was, and still is, enabled.
C6_Witness ==
    \E p \in Procs :
        /\ Done(p, "deploy")
        /\ "wsgi" \in DOMAIN inv[p].manifest
        /\ \E i \in Ordinals : UnitName(inv[p].app, "wsgi", i) \in DOMAIN available
                                 /\ UnitName(inv[p].app, "wsgi", i) \notin DOMAIN pre[p].available
        /\ \E i \in Ordinals : UnitName(inv[p].app, "web", i) \in DOMAIN enabled

C9_DisableDisables ==
    \A p \in Procs :
        (Done(p, "disable") /\ OwnUnits(pre[p].enabled, inv[p].app) # {})
        => /\ OwnUnits(enabled, inv[p].app) = {}
           /\ Own(available, inv[p].app) = Own(pre[p].available, inv[p].app)
           /\ OwnDirs(dirs, inv[p].app) = OwnDirs(pre[p].dirs, inv[p].app)

\* C9 witness: a disable of an application with two enabled units has ended.
C9_Witness ==
    \E p \in Procs :
        /\ Done(p, "disable")
        /\ Cardinality(OwnUnits(pre[p].enabled, inv[p].app)) = 2
        /\ OwnUnits(available, inv[p].app) # {}

\* C10: a disable of an application with no enabled unit reports "not
\* deployed", does not crash and leaves directories, available set and
\* enabled set unchanged.
C10_DisableDisabledIsNoOp ==
    \A p \in Procs :
        (inv[p].op = "disable" /\ OwnUnits(pre[p].enabled, inv[p].app) = {})
        => /\ dirs = pre[p].dirs
           /\ available = pre[p].available
           /\ enabled = pre[p].enabled
           /\ inv[p].pc = "done" => inv[p].out = "Error: not deployed"

\* C11: an enable whose preconditions do not hold (no checkout, or no
\* available unit of the application) ends with the error "not configured"
\* and changes nothing.
C11_EnableNotConfigured ==
    \A p \in Procs :
        ( /\ Done(p, "enable")
          /\ \/ <<APP_ROOT, inv[p].app>> \notin pre[p].dirs
             \/ OwnUnits(pre[p].available, inv[p].app) = {} )
        => /\ inv[p].out = "Error: not configured"
           /\ dirs = pre[p].dirs
           /\ available = pre[p].available
           /\ enabled = pre[p].enabled

\* the application has no directory and no unit in the given file system
Absent(fs, app) ==
    /\ OwnDirs(fs.dirs, app) = {}
    /\ OwnUnits(fs.available, app) = {}
    /\ OwnUnits(fs.enabled, app) = {}

\* C12: when a destroy ends, the application's four directories are gone and
\* none of its units is available or enabled; a destroy of an absent
\* application does not crash and changes nothing.
C12_DestroyMakesAbsent ==
    \A p \in Procs :
        /\ Done(p, "destroy") => Absent(Snapshot, inv[p].app) /\ inv[p].out # "crash"
        /\ (inv[p].op = "destroy" /\ Absent(pre[p], inv[p].app)) => Snapshot = pre[p]

\* C13: a deploy of an existing checkout whose manifest is missing or has no
\* recognised worker reports "Procfile not found" and leaves the runtime
\* environment (all directories), the available set and the enabled set as
\* they were.
C13_NoProcfileNoDeploy ==
    \A p \in Procs :
        ( /\ inv[p].op = "deploy"
          /\ <<APP_ROOT, inv[p].app>> \in pre[p].dirs
          /\ DOMAIN inv[p].manifest = {} )
        => /\ Snapshot = pre[p]
           /\ inv[p].pc = "done"
           /\ inv[p].out = "Error: Procfile not found"

\* C13 witness: such a deploy has ended for an application that has a
\* requirements.txt and no runtime environment yet.
C13_Witness ==
    \E p \in Procs :
        /\ Done(p, "deploy")
        /\ inv[p].out = "Error: Procfile not found"
        /\ inv[p].requirements
        /\ <<ENV_ROOT, inv[p].app>> \notin dirs

\* C19: destroy, disable, enable and restart of one application leave the
\* available and enabled units of every other application unchanged.
C19_OtherAppsUntouched ==
    \A p \in Procs :
        inv[p].op \in {"destroy", "disable", "enable", "restart"}
        => \A b \in Apps \ {inv[p].app} :
               /\ Own(available, b) = Own(pre[p].available, b)
               /\ Own(enabled, b) = Own(pre[p].enabled, b)

\* a step of the deploy run by p that changes the enabled location
DeploySignals(p) ==
    /\ inv[p].op = "deploy"
    /\ inv[p].pc # "done"
    /\ inv'[p] # inv[p]
    /\ enabled' # enabled

\* the unit of kind k is available with the content this deploy gives it
Generated(p, k) ==
    \E i \in Ordinals :
        /\ UnitName(inv[p].app, k, i) \in DOMAIN available
        /\ available[UnitName(inv[p].app, k, i)] =
               UnitContent(inv[p].app, k, inv[p].manifest[k], inv[p].port, i)

\* the names whose file differs between two directories
Differing(d, e) ==
    { f \in DOMAIN d \cup DOMAIN e :
        ~ (f \in DOMAIN d /\ f \in DOMAIN e /\ d[f] = e[f]) }

Declares(lines, k) == \E i \in 1..Len(lines) : lines[i].sep /\ lines[i].kind = k

\* the command of the last line declaring kind k
LastDeclared(lines, k) ==
    LET i == CHOOSE j \in 1..Len(lines) :
                 /\ lines[j].sep /\ lines[j].kind = k
                 /\ \A h \in (j + 1)..Len(lines) : ~ (lines[h].sep /\ lines[h].kind = k)
    IN  lines[i].command

\* C16: for a Procfile declaring both web and wsgi (any order, any
\* duplicates) the parsed map has wsgi, with its last command, and no web;
\* it has worker exactly when the Procfile declares it, with its last command.
C16_WsgiTrumpsWeb ==
    \A p \in Procs :
        ( /\ Done(p, "parse")
          /\ Declares(inv[p].lines, "web")
          /\ Declares(inv[p].lines, "wsgi") )
        => /\ DOMAIN inv[p].manifest \cap {"web", "wsgi"} = {"wsgi"}
           /\ inv[p].manifest["wsgi"] = LastDeclared(inv[p].lines, "wsgi")
           /\ "worker" \in DOMAIN inv[p].manifest <=> Declares(inv[p].lines, "worker")
           /\ Declares(inv[p].lines, "worker")
                 => inv[p].manifest["worker"] = LastDeclared(inv[p].lines, "worker")

\* C16 witness: a Procfile declaring web, wsgi and worker has been parsed.
C16_Witness ==
    \E p \in Procs :
        /\ Done(p, "parse")
        /\ \A k \in Kinds : Declares(inv[p].lines, k)
        /\ inv[p].lines[Len(inv[p].lines)].kind = "web"

\* the file sets the key
Sets(file, key) ==
    file.present /\ \E i \in 1..Len(file.lines) : file.lines[i].sep /\ file.lines[i].key = key

\* the value of the last line of the file that sets the key
LastSet(file, key) ==
    LET i == CHOOSE j \in 1..Len(file.lines) :
                 /\ file.lines[j].sep /\ file.lines[j].key = key
                 /\ \A h \in (j + 1)..Len(file.lines) :
                        ~ (file.lines[h].sep /\ file.lines[h].key = key)
    IN  file.lines[i].value

\* C17: the resolved environment is defaults < file shipped in the
\* application's checkout < override file: a key has the override file's
\* value if that file sets it, else the shipped file's value if that file
\* sets it, else its default.
C17_EnvPrecedence ==
    \A p \in Procs :
        inv[p].pc = "resolved"
        => \A key \in EnvKeys \cup DOMAIN DefaultEnv(inv[p].app, inv[p].port) :
              IF Sets(inv[p].files.settings, key)
              THEN key \in DOMAIN inv[p].env
                   /\ inv[p].env[key] = LastSet(inv[p].files.settings, key)
              ELSE IF Sets(inv[p].files.shipped, key)
              THEN key \in DOMAIN inv[p].env
                   /\ inv[p].env[key] = LastSet(inv[p].files.shipped, key)
              ELSE key \in DOMAIN DefaultEnv(inv[p].app, inv[p].port)
                   => /\ key \in DOMAIN inv[p].env
                      /\ inv[p].env[key] = DefaultEnv(inv[p].app, inv[p].port)[key]

\* C15: the round of git_hook for a line whose ref is not the primary branch
\* changes no directory (checkout, runtime environment), pulls nothing,
\* changes no available or enabled file and starts no deploy.
C15_OtherRefsNotDeployed ==
    [][ \A p \in Procs :
            ( /\ inv[p].pc = "git_hook"
              /\ inv[p].refs[inv[p].line] # PrimaryRef
              /\ inv'[p] # inv[p] )
            => /\ UNCHANGED <<dirs, available, enabled>>
               /\ inv'[p].pulled = inv[p].pulled
               /\ inv'[p].pc \in {"git_hook", "done"} ]_vars

\* C15 witness: a hook has ended on a line of another ref, for an
\* application that has no checkout.
C15_Witness ==
    \E p \in Procs :
        /\ Done(p, "git-hook")
        /\ inv[p].out = "receive-branch"
        /\ inv[p].refs[inv[p].line] = "refs/heads/dev"
        /\ <<APP_ROOT, inv[p].app>> \notin dirs

\* C18: when a restart copies back a unit of the application that was enabled
\* when the restart started, uWSGI has seen the unit absent (it no longer
\* runs its vassal), and the unit is enabled again for uWSGI to start.
C18_RestartStopsThenStarts ==
    [][ \A p \in Procs :
            ( /\ inv[p].op = "restart"
              /\ inv[p].pc = "restart_copy"
              /\ inv'[p] # inv[p]
              /\ inv'[p].out # "crash" )
            => \A a \in (inv[p].av \ inv'[p].av) \cap OwnUnits(pre[p].enabled, inv[p].app) :
                  /\ a \notin vassals
                  /\ a \in DOMAIN enabled' ]_vars

====
